---- MODULE Spec2Model ----
(***************************************************************************)
(* The Lighter signer bridge (lighter_signer_bridge.py): a line protocol   *)
(* loop that reads one JSON request per line, keeps a per-apiKeyIndex      *)
(* registry of signing configurations, calls the foreign signer library    *)
(* through ctypes and prints one JSON response per request.                *)
(***************************************************************************)
EXTENDS Integers, Sequences, FiniteSets, TLC

VARIABLES
    _CLIENT_CONFIG,     \* dict: apiKeyIndex -> config            (line 132)
    _INITIALISED_KEYS,  \* set of apiKeyIndex                     (line 131)
    pc,                 \* where main() is: "read", "print", "crashed", "eof"
    line,               \* the line of the current iteration
    calls,              \* the foreign calls of the current iteration, in order
    response,           \* the dict about to be printed (line 281)
    prev,               \* history: the previous exchange, kept when it was
                        \*   a create_client request that the caller sends again
    supplied,           \* history: what the requests so far supplied per key
    created             \* history: the apiKeyIndex values, as the library got
                        \*   them, of the CreateClient calls that returned no error

vars == <<_CLIENT_CONFIG, _INITIALISED_KEYS, pc, line, calls, response, prev, supplied, created>>

-----------------------------------------------------------------------------
(* Bounds of the model.                                                    *)

\* The apiKeyIndex values that fit a C int are 0..MaxKey.
MaxKey == 1

-----------------------------------------------------------------------------
(* Python integers.  A Python int is unbounded; the model writes it as     *)
(* three words, w2 * 2^64 + w1 * 2^32 + w0 with 0 <= w0, w1 < 2^31, so that *)
(* the narrowing done by ctypes.c_int and ctypes.c_longlong (no overflow   *)
(* check, the value is reduced modulo 2^32 resp. 2^64) can be computed.    *)

Wide(w2, w1, w0) == [w2 |-> w2, w1 |-> w1, w0 |-> w0]
Small(n) == Wide(0, 0, n)

\* ctypes.c_int(n): the low 32 bits.
c_int(n) == Wide(0, 0, n.w0)
\* ctypes.c_longlong(n): the low 64 bits.
c_longlong(n) == Wide(0, n.w1, n.w0)

Digits == <<"0", "1", "2", "3", "4", "5", "6", "7", "8", "9">>

\* str(n) of a natural number.
RECURSIVE IntStr(_)
IntStr(n) == IF n < 10 THEN Digits[n + 1] ELSE IntStr(n \div 10) \o Digits[(n % 10) + 1]

\* The naturals whose decimal text the model's strings may hold.
Parsable == 0 .. 9

-----------------------------------------------------------------------------
(* JSON values as json.loads returns them: t is the Python type, s the     *)
(* text of a str, i the value of an int.  JAbsent is a key that is not in  *)
(* its dict.                                                               *)

JAbsent == [t |-> "absent", s |-> "", i |-> Small(0)]
JNull == [t |-> "null", s |-> "", i |-> Small(0)]
JList == [t |-> "list", s |-> "", i |-> Small(0)]
JStr(x) == [t |-> "str", s |-> x, i |-> Small(0)]
JInt(n) == [t |-> "int", s |-> "", i |-> n]

\* str(v), as an f-string formats it.
PyStr(v) ==
    CASE v.t = "str" -> v.s
      [] v.t = "int" -> IntStr(v.i.w0)
      [] v.t = "list" -> "[]"
      [] OTHER -> "None"

\* What evaluating an expression gives: a value, or a raised exception
\* with its str().
Value(v) == [raised |-> FALSE, exc |-> "", val |-> v]
Raise(msg) == [raised |-> TRUE, exc |-> msg, val |-> Small(0)]

\* int(v) for a JSON value v.
PyInt(v) ==
    CASE v.t = "int" -> Value(v.i)
      [] v.t = "str" ->
            IF \E n \in Parsable : IntStr(n) = v.s
            THEN Value(Small(CHOOSE n \in Parsable : IntStr(n) = v.s))
            ELSE Raise("invalid literal for int() with base 10: '" \o v.s \o "'")
      [] v.t = "list" ->
            Raise("int() argument must be a string, a bytes-like object or a real number, not 'list'")
      [] OTHER ->
            Raise("int() argument must be a string, a bytes-like object or a real number, not 'NoneType'")

\* The keys the handlers read from params.
Fields ==
    {"apiKeyIndex", "baseUrl", "privateKey", "chainId", "accountIndex",
     "marketIndex", "clientOrderIndex", "baseAmount", "price", "isAsk",
     "orderType", "timeInForce", "reduceOnly", "triggerPrice", "orderExpiry",
     "nonce", "orderIndex", "scheduledTime", "deadlineMs"}

\* params as Python sees it: a dict (d maps each key to its value, JAbsent
\* when the key is missing) or a value of another type t.
Dict(d) == [t |-> "dict", d |-> d]
NoKeys == [f \in Fields |-> JAbsent]
NotADict(ty) == [t |-> ty, d |-> NoKeys]

\* params[key]
Subscript(params, key) ==
    CASE params.t = "dict" ->
            IF params.d[key].t = "absent"
            THEN Raise("'" \o key \o "'")
            ELSE Value(params.d[key])
      [] params.t = "list" -> Raise("list indices must be integers or slices, not str")
      [] params.t = "str" -> Raise("string indices must be integers, not 'str'")
      [] params.t = "int" -> Raise("'int' object is not subscriptable")
      [] OTHER -> Raise("'NoneType' object is not subscriptable")

\* int(params[key])
IntParam(params, key) ==
    LET v == Subscript(params, key)
    IN  IF v.raised THEN Raise(v.exc) ELSE PyInt(v.val)

\* key in params, for the dict that params is once params["apiKeyIndex"]
\* has been read.
Contains(params, key) == params.d[key].t # "absent"

-----------------------------------------------------------------------------
(* C strings of the foreign library (c_char_p): a null pointer, or bytes.  *)

CNull == [null |-> TRUE, bytes |-> ""]
CStr(b) == [null |-> FALSE, bytes |-> b]

\* Python truth of a c_char_p result: None and b"" are false.
Truthy(p) == ~p.null /\ p.bytes # ""

\* A buffer that is not valid UTF-8, and what decoding it with
\* errors="replace" gives.
InvalidUtf8 == "\\xff"
ReplacementChar == "\\ufffd"

\* ctypes.string_at(p).decode("utf-8", errors="replace")
Decode(p) == IF p.bytes = InvalidUtf8 THEN ReplacementChar ELSE p.bytes

\* v.encode("utf-8"): only a str has the method.
Encode(v) ==
    CASE v.t = "str" -> Value(v.s)
      [] v.t = "int" -> Raise("'int' object has no attribute 'encode'")
      [] v.t = "list" -> Raise("'list' object has no attribute 'encode'")
      [] OTHER -> Raise("'NoneType' object has no attribute 'encode'")

-----------------------------------------------------------------------------
(* Results of the foreign library.  One record shape holds the three       *)
(* restypes: a bare c_char_p (CreateClient, in err), StrOrErr (str, err)   *)
(* and SignedTxResponse (txInfo, txHash, messageToSign, err; txType is an  *)
(* integer the bridge never reads).                                        *)

ForeignResult(struct, str, txInfo, txHash, messageToSign, err) ==
    [struct |-> struct, str |-> str, txInfo |-> txInfo, txHash |-> txHash,
     messageToSign |-> messageToSign, err |-> err]
CharP(err) == ForeignResult("c_char_p", CNull, CNull, CNull, CNull, err)
StrOrErr(str, err) == ForeignResult("StrOrErr", str, CNull, CNull, CNull, err)
SignedTxResponse(txInfo, txHash, messageToSign, err) ==
    ForeignResult("SignedTxResponse", CNull, txInfo, txHash, messageToSign, err)
NoResult == CharP(CNull)

\* One call of the foreign library as the library receives it: the
\* function, its arguments after ctypes' narrowing, and what it returned.
\* ints are the integer arguments that come before apiKeyIndex.
ForeignCall(fn, url, key, chainId, ints, apiKeyIndex, accountIndex, ret) ==
    [fn |-> fn, url |-> url, key |-> key, chainId |-> chainId, ints |-> ints,
     apiKeyIndex |-> apiKeyIndex, accountIndex |-> accountIndex, ret |-> ret]

-----------------------------------------------------------------------------
(* The dict a handler returns.  A key that is not in the dict is JAbsent.  *)

NoOutcome ==
    [error |-> JAbsent, result |-> JAbsent, txHash |-> JAbsent, messageToSign |-> JAbsent]
ErrorOutcome(msg) == [NoOutcome EXCEPT !.error = JStr(msg)]
ResultOutcome(v) == [NoOutcome EXCEPT !.result = v]
HasError(outcome) == outcome.error.t # "absent"

\* decoded text of a buffer if the pointer is truthy, else None
TextOrNone(p) == IF Truthy(p) THEN JStr(Decode(p)) ELSE JNull

\* A variant of _unwrap that builds the composite dict first and adds the
\* error to it.
UnwrapKeepingFields(result) ==
    IF result.struct = "SignedTxResponse"
    THEN [error |-> IF Truthy(result.err) THEN JStr(Decode(result.err)) ELSE JAbsent,
          result |-> TextOrNone(result.txInfo),
          txHash |-> TextOrNone(result.txHash),
          messageToSign |-> TextOrNone(result.messageToSign)]
    ELSE IF Truthy(result.err)
         THEN ErrorOutcome(Decode(result.err))
         ELSE IF Truthy(result.str)
              THEN ResultOutcome(JStr(Decode(result.str)))
              ELSE ResultOutcome(JNull)

_unwrap(result) ==
    IF result.struct = "SignedTxResponse"
    THEN IF Truthy(result.err)
         THEN ErrorOutcome(Decode(result.err))
         ELSE [error |-> JAbsent,
               result |-> TextOrNone(result.txInfo),
               txHash |-> TextOrNone(result.txHash),
               messageToSign |-> TextOrNone(result.messageToSign)]
    ELSE IF Truthy(result.err)
         THEN ErrorOutcome(Decode(result.err))
         ELSE IF Truthy(result.str)
              THEN ResultOutcome(JStr(Decode(result.str)))
              ELSE ResultOutcome(JNull)

\* A variant of line 126 that tests `ptr is not None`: an empty buffer
\* counts as an error.
ErrorUnlessNull(ptr) ==
    IF ~ptr.null THEN ErrorOutcome(Decode(ptr)) ELSE ResultOutcome(JStr("ok"))

_maybe_error(ptr) ==
    IF Truthy(ptr) THEN ErrorOutcome(Decode(ptr)) ELSE ResultOutcome(JStr("ok"))

-----------------------------------------------------------------------------
(* What running a function gives: the dict it returned or the exception it *)
(* raised, the registry and the initialised keys as it left them, and the  *)
(* foreign calls it made.                                                  *)

Returned(outcome, config, keys, made) ==
    [raised |-> FALSE, exc |-> "", outcome |-> outcome,
     config |-> config, keys |-> keys, calls |-> made]
Raised(exc, config, keys, made) ==
    [raised |-> TRUE, exc |-> exc, outcome |-> NoOutcome,
     config |-> config, keys |-> keys, calls |-> made]

\* A variant of line 146 that assigns the dict: _CLIENT_CONFIG = {k: config}.
ReplaceRegistry(registry, k, config) == [x \in {k} |-> config]

\* A variant of line 146 that merges: a key that has a config keeps its
\* chainId and accountIndex and takes the new baseUrl and privateKey.
MergeConfig(registry, k, config) ==
    [x \in DOMAIN registry \cup {k} |->
        IF x # k THEN registry[x]
        ELSE IF k \in DOMAIN registry
        THEN [config EXCEPT !.chainId = registry[k].chainId,
                            !.accountIndex = registry[k].accountIndex]
        ELSE config]

\* The registry with the config of key k set: _CLIENT_CONFIG[k] = config
StoreConfig(registry, k, config) ==
    [x \in DOMAIN registry \cup {k} |-> IF x = k THEN config ELSE registry[x]]

\* The config built from params at lines 140-145.
NewConfig(params, chainId, accountIndex) ==
    [baseUrl |-> params.d["baseUrl"], privateKey |-> params.d["privateKey"],
     chainId |-> chainId, accountIndex |-> accountIndex]

\* A variant of line 139 with `or` for `and`.
SuppliesEitherCredential(params) ==
    Contains(params, "baseUrl") \/ Contains(params, "privateKey")

\* Both credentials are in params (line 139).
SuppliesCredentials(params) ==
    Contains(params, "baseUrl") /\ Contains(params, "privateKey")

\* config is None at line 148.
ConfigMissing(registry, k) == k \notin DOMAIN registry

\* A variant of line 161 that assigns the set: _INITIALISED_KEYS = {k}.
MarkOnlyThis(keys, k) == {k}

\* _INITIALISED_KEYS.add(api_key_index)
MarkInitialised(keys, k) == keys \cup {k}

\* A variant of lines 159-160 that also drops the config of the key that
\* CreateClient refused.
ReturnErrorAndForget(outcome, registry, keys, k, call) ==
    Returned(outcome, [x \in DOMAIN registry \ {k} |-> registry[x]], keys, <<call>>)

\* if "error" in outcome: return outcome (lines 159-160), in the ensure
\* step of key k after the CreateClient call `call`.
ReturnError(outcome, registry, keys, k, call) ==
    Returned(outcome, registry, keys, <<call>>)

\* The CreateClient call of lines 151-157, returning ret.
CreateClientCall(url, key, config, k, ret) ==
    ForeignCall("CreateClient", url, key, c_int(config.chainId), <<>>,
                c_int(k), c_longlong(config.accountIndex), CharP(ret))

\* Lines 148-162, with the registry as lines 138-146 left it.
InitialiseClient(registry, keys, k, ret) ==
    IF ConfigMissing(registry, k)
    THEN Returned(ErrorOutcome("client_not_initialized"), registry, keys, <<>>)
    ELSE LET config == registry[k]
             url == Encode(config.baseUrl)
             key == Encode(config.privateKey)
         IN  IF url.raised THEN Raised(url.exc, registry, keys, <<>>)
             ELSE IF key.raised THEN Raised(key.exc, registry, keys, <<>>)
             ELSE LET call == CreateClientCall(url.val, key.val, config, k, ret)
                      outcome == _maybe_error(ret)
                  IN  IF HasError(outcome)
                      THEN ReturnError(outcome, registry, keys, k, call)
                      ELSE Returned(ResultOutcome(JStr("ok")), registry,
                                    MarkInitialised(keys, k), <<call>>)

_ensure_client(registry, keys, params, ret) ==
    LET api_key_index == IntParam(params, "apiKeyIndex")
    IN  IF api_key_index.raised
        THEN Raised(api_key_index.exc, registry, keys, <<>>)
        ELSE IF SuppliesCredentials(params)
        THEN LET chainId == IntParam(params, "chainId")
                 accountIndex == IntParam(params, "accountIndex")
             IN  IF chainId.raised THEN Raised(chainId.exc, registry, keys, <<>>)
                 ELSE IF accountIndex.raised
                 THEN Raised(accountIndex.exc, registry, keys, <<>>)
                 ELSE InitialiseClient(
                        StoreConfig(registry, api_key_index.val,
                                    NewConfig(params, chainId.val, accountIndex.val)),
                        keys, api_key_index.val, ret)
        ELSE InitialiseClient(registry, keys, api_key_index.val, ret)

-----------------------------------------------------------------------------
(* The four privileged handlers.                                           *)

\* ctypes.c_int(n) or ctypes.c_longlong(n)
Narrow(ctype, n) == IF ctype = "c_int" THEN c_int(n) ELSE c_longlong(n)

\* int(params[name]) for each name in turn: the first exception raised.
RECURSIVE FirstRaise(_, _)
FirstRaise(params, names) ==
    IF names = <<>>
    THEN Value(TRUE)
    ELSE LET head == IntParam(params, Head(names))
         IN  IF head.raised THEN Raise(head.exc) ELSE FirstRaise(params, Tail(names))

\* What follows the ensure step in a handler: the arguments are evaluated
\* in the order `order`, the library's fn is called with `args` (name and
\* ctypes type, in positional order), then apiKeyIndex and accountIndex,
\* and its result ret is unwrapped.
Operation(fn, params, order, args, ensure, ret) ==
    LET bad == FirstRaise(params, order)
    IN  IF bad.raised
        THEN Raised(bad.exc, ensure.config, ensure.keys, ensure.calls)
        ELSE LET call ==
                   ForeignCall(fn, "", "", Small(0),
                       [j \in 1 .. Len(args) |->
                           Narrow(args[j][2], IntParam(params, args[j][1]).val)],
                       c_int(IntParam(params, "apiKeyIndex").val),
                       c_longlong(IntParam(params, "accountIndex").val),
                       ret)
             IN  Returned(_unwrap(ret), ensure.config, ensure.keys,
                          Append(ensure.calls, call))

\* A variant of the handlers without lines 176-177: only an exception of
\* the ensure step leaves the handler.
AbortsOnException(ensure) == ensure.raised

\* if "error" in ensure: return ensure (an exception of the ensure step
\* leaves the handler as well).
Aborts(ensure) == ensure.raised \/ HasError(ensure.outcome)

handle_create_client(registry, keys, params, ccRet) ==
    _ensure_client(registry, keys, params, ccRet)

handle_sign_create_order(registry, keys, params, ccRet, ret) ==
    LET ensure == _ensure_client(registry, keys, params, ccRet)
    IN  IF Aborts(ensure)
        THEN ensure
        ELSE Operation("SignCreateOrder", params,
                <<"apiKeyIndex", "orderExpiry", "marketIndex", "clientOrderIndex",
                  "baseAmount", "price", "isAsk", "orderType", "timeInForce",
                  "reduceOnly", "triggerPrice", "nonce", "accountIndex">>,
                << <<"marketIndex", "c_int">>, <<"clientOrderIndex", "c_longlong">>,
                   <<"baseAmount", "c_longlong">>, <<"price", "c_int">>,
                   <<"isAsk", "c_int">>, <<"orderType", "c_int">>,
                   <<"timeInForce", "c_int">>, <<"reduceOnly", "c_int">>,
                   <<"triggerPrice", "c_int">>, <<"orderExpiry", "c_longlong">>,
                   <<"nonce", "c_longlong">> >>,
                ensure, ret)

handle_sign_cancel_order(registry, keys, params, ccRet, ret) ==
    LET ensure == _ensure_client(registry, keys, params, ccRet)
    IN  IF Aborts(ensure)
        THEN ensure
        ELSE Operation("SignCancelOrder", params,
                <<"apiKeyIndex", "marketIndex", "orderIndex", "nonce", "accountIndex">>,
                << <<"marketIndex", "c_int">>, <<"orderIndex", "c_longlong">>,
                   <<"nonce", "c_longlong">> >>,
                ensure, ret)

handle_sign_cancel_all(registry, keys, params, ccRet, ret) ==
    LET ensure == _ensure_client(registry, keys, params, ccRet)
    IN  IF Aborts(ensure)
        THEN ensure
        ELSE Operation("SignCancelAllOrders", params,
                <<"apiKeyIndex", "timeInForce", "scheduledTime", "nonce", "accountIndex">>,
                << <<"timeInForce", "c_int">>, <<"scheduledTime", "c_longlong">>,
                   <<"nonce", "c_longlong">> >>,
                ensure, ret)

handle_create_auth_token(registry, keys, params, ccRet, ret) ==
    LET ensure == _ensure_client(registry, keys, params, ccRet)
    IN  IF Aborts(ensure)
        THEN ensure
        ELSE Operation("CreateAuthToken", params,
                <<"apiKeyIndex", "deadlineMs", "accountIndex">>,
                << <<"deadlineMs", "c_longlong">> >>,
                ensure, ret)

HANDLERS ==
    {"create_client", "sign_create_order", "sign_cancel_order",
     "sign_cancel_all", "create_auth_token"}

-----------------------------------------------------------------------------
(* The lines of standard input.  A line is blank, or text json.loads       *)
(* rejects, or a JSON value: request holds its Python type t and, for an   *)
(* object, the values of its keys id, method and params.                   *)

Request(t, id, method, params) == [t |-> t, id |-> id, method |-> method, params |-> params]
NoParams == NotADict("absent")
NoRequest == Request("none", JAbsent, JAbsent, NoParams)
Line(kind, request) == [kind |-> kind, request |-> request]
NoLine == Line("none", NoRequest)

\* request.get(key)
Get(v) == IF v.t = "absent" THEN JNull ELSE v
\* request.get("params", {})
GetParams(request) == IF request.params.t = "absent" THEN Dict(NoKeys) ELSE request.params

\* HANDLERS.get(method) hashes method: a list or a dict cannot be hashed.
Hashable(method) == method.t \notin {"list", "dict"}
\* HANDLERS.get(method) finds a handler.
HasHandler(method) == method.t = "str" /\ method.s \in HANDLERS

\* A variant of lines 272-279 that answers with id null.
ResponseWithoutId(id, outcome) ==
    [id |-> JNull, error |-> outcome.error, result |-> outcome.result,
     txHash |-> outcome.txHash, messageToSign |-> outcome.messageToSign]

\* The dict that is printed: the outcome's keys and id.
Response(id, outcome) ==
    [id |-> id, error |-> outcome.error, result |-> outcome.result,
     txHash |-> outcome.txHash, messageToSign |-> outcome.messageToSign]
NoResponse == Response(JAbsent, NoOutcome)

\* str(exc) of the JSONDecodeError of the model's unparsable line.
DecodeError == "Expecting value: line 1 column 1 (char 0)"

-----------------------------------------------------------------------------
(* History.  prev is the exchange before the current one, remembered when  *)
(* it was a create_client request and the caller goes on to send the same  *)
(* line again.  supplied records, per                                      *)
(* apiKeyIndex, whether a request to one of the handlers carried baseUrl   *)
(* and privateKey (any), and did so with a chainId and an accountIndex     *)
(* that int() accepts (valid).                                             *)

NoConfigs == [x \in {} |-> 0]
Exchange(l, made, r, config, keys) ==
    [line |-> l, calls |-> made, response |-> r, config |-> config, keys |-> keys]
NoPrev == Exchange(NoLine, <<>>, NoResponse, NoConfigs, {})

Supplies(params) ==
    /\ params.t = "dict"
    /\ ~IntParam(params, "apiKeyIndex").raised
    /\ Contains(params, "baseUrl")
    /\ Contains(params, "privateKey")
SuppliesValid(params) ==
    /\ Supplies(params)
    /\ ~IntParam(params, "chainId").raised
    /\ ~IntParam(params, "accountIndex").raised
\* The apiKeyIndex arguments of the CreateClient calls among `made` that
\* returned a null or empty error.
Created(made) ==
    {made[j].apiKeyIndex : j \in {i \in 1 .. Len(made) :
        made[i].fn = "CreateClient" /\ ~Truthy(made[i].ret.err)}}

Noted(s, params) ==
    [any |-> IF Supplies(params)
             THEN s.any \cup {IntParam(params, "apiKeyIndex").val} ELSE s.any,
     valid |-> IF SuppliesValid(params)
               THEN s.valid \cup {IntParam(params, "apiKeyIndex").val} ELSE s.valid]

-----------------------------------------------------------------------------
(* The inputs of the model.                                                *)

Url == JStr("https://x")
Secret == JStr("0xabc")
One == JInt(Small(1))

\* apiKeyIndex values: those that fit a C int, and 2^32, which does not.
KeyValues == {JInt(Small(n)) : n \in 0 .. MaxKey} \cup {JInt(Wide(0, 1, 0))}
FirstAccount == JInt(Small(5))
Accounts == {FirstAccount, JInt(Small(6))}

\* <<baseUrl, privateKey, chainId, accountIndex>> of a request.
NoCredentials == {<<JAbsent, JAbsent, JAbsent, a>> : a \in Accounts}
FullCredentials ==
    {<<Url, Secret, One, FirstAccount>>}
    \cup {<<Url, Secret, JStr("2"), a>> : a \in Accounts \ {FirstAccount}}
WideCredentials == {<<Url, Secret, JInt(Wide(0, 1, 1)), JInt(Wide(1, 0, 5))>>}
HalfCredentials == {<<Url, JAbsent, One, FirstAccount>>, <<JAbsent, Secret, One, FirstAccount>>}
BadCredentials ==
    {<<JInt(Small(7)), Secret, One, FirstAccount>>,
     <<Url, Secret, JAbsent, FirstAccount>>,
     <<Url, Secret, One, JStr("x")>>,
     <<Url, Secret, One, JAbsent>>}
\* The credentials sent with every key, and those sent with key 0 as well.
Credentials == NoCredentials \cup {<<Url, Secret, One, FirstAccount>>} \cup HalfCredentials
MoreCredentials == FullCredentials \cup WideCredentials \cup BadCredentials
PlainCredentials == {<<JAbsent, JAbsent, JAbsent, FirstAccount>>, <<Url, Secret, One, FirstAccount>>}

\* A params dict: the key, the credentials, nonce, and 1 for every other field.
Params(key, c, nonce) ==
    Dict([f \in Fields |->
            CASE f = "apiKeyIndex" -> key
              [] f = "baseUrl" -> c[1]
              [] f = "privateKey" -> c[2]
              [] f = "chainId" -> c[3]
              [] f = "accountIndex" -> c[4]
              [] f = "nonce" -> nonce
              [] OTHER -> One])

Ids == {JAbsent, JNull, One, JStr("a")}
Known == {JStr(m) : m \in HANDLERS}
Unknown == {JStr("foo"), JAbsent, JInt(Small(5))}
Key0 == JInt(Small(0))

Requests ==
    \* every key, with and without credentials, to every handler
    {Request("dict", One, m, Params(k, c, One)) :
        m \in Known, k \in KeyValues, c \in Credentials}
    \* key 0 with every other kind of credentials, to every handler
    \cup {Request("dict", One, m, Params(Key0, c, One)) : m \in Known, c \in MoreCredentials}
    \* every kind of id, to every handler and to no handler
    \cup {Request("dict", i, m, Params(Key0, c, One)) :
        i \in Ids, m \in Known \cup Unknown, c \in PlainCredentials}
    \* a nonce that is missing or no integer
    \cup {Request("dict", One, m, Params(Key0, c, n)) :
        m \in Known, c \in PlainCredentials, n \in {JAbsent, JStr("x")}}
    \* an apiKeyIndex that is a string, missing, or null
    \cup {Request("dict", One, m, Params(k, c, One)) :
        m \in {JStr("create_client"), JStr("sign_cancel_order")},
        k \in {JStr("0"), JAbsent, JNull}, c \in PlainCredentials}
    \* params that is missing or no dict
    \cup {Request("dict", One, m, p) :
        m \in {JStr("create_client"), JStr("create_auth_token"), JStr("foo")},
        p \in {NoParams, NotADict("list"), NotADict("null"), NotADict("str"), NotADict("int")}}
    \* a method that cannot be hashed
    \cup {Request("dict", i, JList, Params(Key0, c, One)) : i \in {One, JAbsent}, c \in PlainCredentials}
    \* a JSON value that is no object
    \cup {Request(t, JAbsent, JAbsent, NoParams) : t \in {"list", "int", "str", "null"}}

Lines ==
    {Line("blank", NoRequest), Line("invalid", NoRequest)}
    \cup {Line("json", r) : r \in Requests}

\* What the foreign library may return.
CreateClientResults == {CNull, CStr(""), CStr("invalid private key"), CStr(InvalidUtf8)}
SignedResults ==
    {SignedTxResponse(CStr("tx"), CStr("hash"), CStr("msg"), CNull),
     SignedTxResponse(CStr(""), CStr("hash"), CNull, CStr("")),
     SignedTxResponse(CNull, CNull, CNull, CStr("insufficient_margin"))}
TokenResults ==
    {StrOrErr(str, err) :
        str \in {CNull, CStr(""), CStr("token")},
        err \in {CNull, CStr(""), CStr("expired")}}

-----------------------------------------------------------------------------
(* main(): one action per way an iteration of the loop can go.             *)

Init ==
    /\ _CLIENT_CONFIG = NoConfigs
    /\ _INITIALISED_KEYS = {}
    /\ pc = "read"
    /\ line = NoLine
    /\ calls = <<>>
    /\ response = NoResponse
    /\ prev = NoPrev
    /\ supplied = [any |-> {}, valid |-> {}]
    /\ created = {}

\* A variant of the loop that takes up the next line while the response to
\* the current one is still to be printed.
ReadingAhead == pc \in {"read", "print"}

\* for line in sys.stdin: the loop is about to read; AtRead(l) when the
\* next line may be l.
Reading == pc = "read"
AtRead(l) == prev = NoPrev \/ l = prev.line

\* The lines on which main() takes each of its ways.
BlankLines == {l \in Lines : l.kind = "blank"}
InvalidLines == {l \in Lines : l.kind = "invalid"}
JsonLines == {l \in Lines : l.kind = "json"}
ObjectLines == {l \in JsonLines : l.request.t = "dict"}
HashableLines == {l \in ObjectLines : Hashable(l.request.method)}
\* The requests for the handler of method m.
Dispatched(m) == {l \in HashableLines : l.request.method = JStr(m)}
CreateClientLines == Dispatched("create_client")
SignCreateOrderLines == Dispatched("sign_create_order")
SignCancelOrderLines == Dispatched("sign_cancel_order")
SignCancelAllLines == Dispatched("sign_cancel_all")
CreateAuthTokenLines == Dispatched("create_auth_token")

\* The results the library may give to a call that is made; nothing is
\* chosen for a call that is not made.
Returns(made, results) == IF made THEN results ELSE {CNull}
Results(made, results) == IF made THEN results ELSE {NoResult}

\* Lines 274-281 once the handler has run: its outcome, or the exception
\* it raised, becomes the response.
Handled(l, run) ==
    /\ _CLIENT_CONFIG' = run.config
    /\ _INITIALISED_KEYS' = run.keys
    /\ calls' = run.calls
    /\ response' =
         IF run.raised
         THEN Response(Get(l.request.id), ErrorOutcome("exception:" \o run.exc))
         ELSE Response(Get(l.request.id), run.outcome)
    /\ line' = l
    /\ pc' = "print"
    /\ supplied' = Noted(supplied, GetParams(l.request))
    /\ created' = created \cup Created(run.calls)
    /\ UNCHANGED prev

\* if not line: continue
SkipBlankLine ==
    /\ Reading
    /\ \E l \in BlankLines :
        /\ AtRead(l)
        /\ UNCHANGED vars

\* A variant of main() without the try of lines 260-264: the
\* JSONDecodeError leaves main().
InvalidJsonCrashes ==
    /\ Reading
    /\ \E l \in InvalidLines :
        /\ AtRead(l)
        /\ line' = l
        /\ pc' = "crashed"
        /\ UNCHANGED <<_CLIENT_CONFIG, _INITIALISED_KEYS, calls, response, prev, supplied, created>>

\* json.loads raises JSONDecodeError
InvalidJson ==
    /\ Reading
    /\ \E l \in InvalidLines :
        /\ AtRead(l)
        /\ response' = Response(JNull, ErrorOutcome("invalid_json:" \o DecodeError))
        /\ line' = l
        /\ pc' = "print"
        /\ UNCHANGED <<_CLIENT_CONFIG, _INITIALISED_KEYS, calls, prev, supplied, created>>

\* The exception leaves main(): the process ends with a traceback.
Crashes(l) ==
    /\ line' = l
    /\ pc' = "crashed"
    /\ UNCHANGED <<_CLIENT_CONFIG, _INITIALISED_KEYS, calls, response, prev, supplied, created>>

\* request.get("id") on a value that is no dict: AttributeError, outside
\* the try of line 274.
NotAnObject ==
    /\ Reading
    /\ \E l \in JsonLines \ ObjectLines :
        /\ AtRead(l)
        /\ Crashes(l)

\* HANDLERS.get(method) on a list: TypeError, outside the try of line 274.
UnhashableMethod ==
    /\ Reading
    /\ \E l \in ObjectLines \ HashableLines :
        /\ AtRead(l)
        /\ Crashes(l)

\* if not handler
UnknownMethod ==
    /\ Reading
    /\ \E l \in HashableLines :
        /\ AtRead(l)
        /\ ~HasHandler(l.request.method)
        /\ response' = Response(Get(l.request.id),
                                ErrorOutcome("unknown_method:" \o PyStr(Get(l.request.method))))
        /\ line' = l
        /\ pc' = "print"
        /\ UNCHANGED <<_CLIENT_CONFIG, _INITIALISED_KEYS, calls, prev, supplied, created>>

\* Whether the ensure step of a request with these params calls CreateClient.
CallsCreateClient(params) ==
    Len(_ensure_client(_CLIENT_CONFIG, _INITIALISED_KEYS, params, CNull).calls) = 1

CreateClient ==
    /\ Reading
    /\ \E l \in CreateClientLines :
        /\ AtRead(l)
        /\ LET params == GetParams(l.request)
           IN  \E ccRet \in Returns(CallsCreateClient(params), CreateClientResults) :
                 Handled(l, handle_create_client(_CLIENT_CONFIG, _INITIALISED_KEYS, params, ccRet))

SignCreateOrder ==
    /\ Reading
    /\ \E l \in SignCreateOrderLines :
        /\ AtRead(l)
        /\ LET params == GetParams(l.request)
           IN  \E ccRet \in Returns(CallsCreateClient(params), CreateClientResults) :
                 \E ret \in Results(
                        Len(handle_sign_create_order(_CLIENT_CONFIG, _INITIALISED_KEYS,
                                                     params, ccRet, NoResult).calls) = 2,
                        SignedResults) :
                    Handled(l, handle_sign_create_order(_CLIENT_CONFIG, _INITIALISED_KEYS,
                                                        params, ccRet, ret))

SignCancelOrder ==
    /\ Reading
    /\ \E l \in SignCancelOrderLines :
        /\ AtRead(l)
        /\ LET params == GetParams(l.request)
           IN  \E ccRet \in Returns(CallsCreateClient(params), CreateClientResults) :
                 \E ret \in Results(
                        Len(handle_sign_cancel_order(_CLIENT_CONFIG, _INITIALISED_KEYS,
                                                     params, ccRet, NoResult).calls) = 2,
                        SignedResults) :
                    Handled(l, handle_sign_cancel_order(_CLIENT_CONFIG, _INITIALISED_KEYS,
                                                        params, ccRet, ret))

SignCancelAll ==
    /\ Reading
    /\ \E l \in SignCancelAllLines :
        /\ AtRead(l)
        /\ LET params == GetParams(l.request)
           IN  \E ccRet \in Returns(CallsCreateClient(params), CreateClientResults) :
                 \E ret \in Results(
                        Len(handle_sign_cancel_all(_CLIENT_CONFIG, _INITIALISED_KEYS,
                                                   params, ccRet, NoResult).calls) = 2,
                        SignedResults) :
                    Handled(l, handle_sign_cancel_all(_CLIENT_CONFIG, _INITIALISED_KEYS,
                                                      params, ccRet, ret))

CreateAuthToken ==
    /\ Reading
    /\ \E l \in CreateAuthTokenLines :
        /\ AtRead(l)
        /\ LET params == GetParams(l.request)
           IN  \E ccRet \in Returns(CallsCreateClient(params), CreateClientResults) :
                 \E ret \in Results(
                        Len(handle_create_auth_token(_CLIENT_CONFIG, _INITIALISED_KEYS,
                                                     params, ccRet, NoResult).calls) = 2,
                        TokenResults) :
                    Handled(l, handle_create_auth_token(_CLIENT_CONFIG, _INITIALISED_KEYS,
                                                        params, ccRet, ret))

\* print(json.dumps(response), flush=True); the loop reads the next line.
PrintResponse ==
    /\ pc = "print"
    /\ pc' = "read"
    /\ line' = NoLine
    /\ calls' = <<>>
    /\ response' = NoResponse
    /\ prev' = NoPrev
    /\ UNCHANGED <<_CLIENT_CONFIG, _INITIALISED_KEYS, supplied, created>>

\* The same, when the line was a create_client request and the next line
\* the caller sends is this line again.
PrintResponseBeforeSameLine ==
    /\ pc = "print"
    /\ prev = NoPrev
    /\ line \in CreateClientLines
    /\ pc' = "read"
    /\ line' = NoLine
    /\ calls' = <<>>
    /\ response' = NoResponse
    /\ prev' = Exchange(line, calls, response, _CLIENT_CONFIG, _INITIALISED_KEYS)
    /\ UNCHANGED <<_CLIENT_CONFIG, _INITIALISED_KEYS, supplied, created>>

\* sys.stdin is at its end: the loop and the process end.
EndOfInput ==
    /\ pc = "read"
    /\ prev = NoPrev
    /\ pc' = "eof"
    /\ UNCHANGED <<_CLIENT_CONFIG, _INITIALISED_KEYS, line, calls, response, prev, supplied, created>>

Next ==
    \/ SkipBlankLine
    \/ InvalidJson
    \/ NotAnObject
    \/ UnhashableMethod
    \/ UnknownMethod
    \/ CreateClient
    \/ SignCreateOrder
    \/ SignCancelOrder
    \/ SignCancelAll
    \/ CreateAuthToken
    \/ PrintResponse
    \/ EndOfInput

Spec == Init /\ [][Next]_vars

\* The same program, with the caller's resending of a line recorded.
NextResend == Next \/ PrintResponseBeforeSameLine

SpecResend == Init /\ [][NextResend]_vars

-----------------------------------------------------------------------------
(* What the claims speak of.                                               *)

\* The state holds a request that main() has handled or crashed on.
Current == line.request
CurrentParams == GetParams(line.request)
\* The current line went to one of the five handlers.
Dispatching == line.kind = "json" /\ Current.t = "dict" /\ HasHandler(Current.method)
\* ... and its params name an apiKeyIndex.
Keyed == Dispatching /\ ~IntParam(CurrentParams, "apiKeyIndex").raised
CurrentKey == IntParam(CurrentParams, "apiKeyIndex").val
Privileged == Keyed /\ Current.method # JStr("create_client")
\* params carry both baseUrl and privateKey.
BothCredentials(params) == Contains(params, "baseUrl") /\ Contains(params, "privateKey")
\* The foreign call c is a CreateClient call; it reported an error.
IsCreateClient(c) == c.fn = "CreateClient"
Failed(c) == Truthy(c.ret.err)

\* The same, of the line a step has just handled.
DispatchingNext == line'.kind = "json" /\ line'.request.t = "dict" /\ HasHandler(line'.request.method)
ParamsNext == GetParams(line'.request)
KeyedNext == DispatchingNext /\ ~IntParam(ParamsNext, "apiKeyIndex").raised
KeyNext == IntParam(ParamsNext, "apiKeyIndex").val
Handles == pc = "read" /\ pc' \in {"print", "crashed"}

-----------------------------------------------------------------------------
\* C1: every SignCreateOrder, SignCancelOrder, SignCancelAllOrders or
\* CreateAuthToken call is made for an apiKeyIndex that has a config in the
\* registry at the time of the call, and after a CreateClient call of the
\* same request for the same apiKeyIndex that returned without error.
\* (The registry is not written between the call and the print.)
C1_PrivilegedCallsAreGated ==
    \A j \in 1 .. Len(calls) :
        ~IsCreateClient(calls[j]) =>
            /\ calls[j].apiKeyIndex \in DOMAIN _CLIENT_CONFIG
            /\ \E i \in 1 .. j - 1 :
                /\ IsCreateClient(calls[i])
                /\ calls[i].apiKeyIndex = calls[j].apiKeyIndex
                /\ ~Failed(calls[i])

\* C2: a request to one of the five methods for a key k that has no stored
\* config and that does not carry both baseUrl and privateKey is answered
\* client_not_initialized, makes no foreign call, and changes neither the
\* registry nor the initialised keys.
C2_NotInitialized ==
    [][(/\ Handles
        /\ KeyedNext
        /\ KeyNext \notin DOMAIN _CLIENT_CONFIG
        /\ ~BothCredentials(ParamsNext))
       => /\ pc' = "print"
          /\ response' = Response(Get(line'.request.id), ErrorOutcome("client_not_initialized"))
          /\ calls' = <<>>
          /\ _CLIENT_CONFIG' = _CLIENT_CONFIG
          /\ _INITIALISED_KEYS' = _INITIALISED_KEYS]_vars

\* C2's case: a request that carries baseUrl alone, for a key never
\* configured, has been answered client_not_initialized.
C2_Witness ==
    /\ pc = "print"
    /\ Keyed
    /\ Contains(CurrentParams, "baseUrl")
    /\ ~Contains(CurrentParams, "privateKey")
    /\ CurrentKey \notin DOMAIN _CLIENT_CONFIG
    /\ response.error = JStr("client_not_initialized")

\* C3 as stated: once a request has supplied baseUrl and privateKey for k, no
\* later request for k to a privileged method that omits the credentials
\* is answered client_not_initialized.
C3_AsStated ==
    (/\ pc = "print"
     /\ Privileged
     /\ ~BothCredentials(CurrentParams)
     /\ CurrentKey \in supplied.any)
    => response.error # JStr("client_not_initialized")

\* C3, amended: the same, once a request has supplied baseUrl and privateKey
\* for k together with a chainId and an accountIndex that int() accepts.
C3_SuppliedConfigIsReused ==
    (/\ pc = "print"
     /\ Privileged
     /\ ~BothCredentials(CurrentParams)
     /\ CurrentKey \in supplied.valid)
    => response.error # JStr("client_not_initialized")

\* C3's case: the credentials were supplied, CreateClient has never
\* succeeded for the key, and a privileged request without credentials
\* has got past the registry to the foreign calls.
C3_Witness ==
    /\ pc = "print"
    /\ Privileged
    /\ ~BothCredentials(CurrentParams)
    /\ CurrentKey \in supplied.valid
    /\ CurrentKey \notin _INITIALISED_KEYS
    /\ calls # <<>>
    /\ response.error = JStr("invalid private key")

\* C4: whatever a non-empty line holds, one response is emitted for it and
\* the loop goes on.
C4_OneResponsePerLine ==
    line.kind \in {"invalid", "json"} => pc = "print" /\ response # NoResponse

\* C5: a request to one of the five methods whose key has a stored config
\* once lines 138-146 are done makes exactly one CreateClient call, the
\* first call of the request, with the stored baseUrl, privateKey, chainId
\* and accountIndex and the request's apiKeyIndex.
C5_CreateClientEveryTime ==
    (/\ pc = "print"
     /\ Keyed
     /\ BothCredentials(CurrentParams) => SuppliesValid(CurrentParams)
     /\ CurrentKey \in DOMAIN _CLIENT_CONFIG)
    => /\ calls # <<>>
       /\ IsCreateClient(calls[1])
       /\ JStr(calls[1].url) = _CLIENT_CONFIG[CurrentKey].baseUrl
       /\ JStr(calls[1].key) = _CLIENT_CONFIG[CurrentKey].privateKey
       /\ calls[1].chainId = _CLIENT_CONFIG[CurrentKey].chainId
       /\ calls[1].accountIndex = _CLIENT_CONFIG[CurrentKey].accountIndex
       /\ calls[1].apiKeyIndex = CurrentKey
       /\ \A j \in 2 .. Len(calls) : ~IsCreateClient(calls[j])

\* C6: when the CreateClient call of a request reports a non-empty error,
\* the response's error is that message (decoded), the key is not added to
\* the initialised keys, and no other foreign call is made.
C6_CreateClientErrorAborts ==
    [][(/\ Handles
        /\ calls' # <<>>
        /\ IsCreateClient(calls'[1])
        /\ Failed(calls'[1]))
       => /\ pc' = "print"
          /\ response' = Response(Get(line'.request.id),
                                  ErrorOutcome(Decode(calls'[1].ret.err)))
          /\ _INITIALISED_KEYS' = _INITIALISED_KEYS
          /\ Len(calls') = 1]_vars

\* C6's case: a signing request whose CreateClient call failed.
C6_Witness ==
    /\ pc = "print"
    /\ Current.method = JStr("sign_create_order")
    /\ Len(calls) = 1
    /\ Failed(calls[1])
    /\ response.error = JStr("invalid private key")
    /\ response.result = JAbsent

\* C7: the stored config of a key k changes only in a request for k that
\* carries both baseUrl and privateKey, and is then exactly the request's
\* baseUrl and privateKey with int(chainId) and int(accountIndex); no key
\* loses its config; a request that carries neither or one of the two
\* leaves the registry as it was.
C7_ConfigOverwrittenAsAWhole ==
    [][/\ DOMAIN _CLIENT_CONFIG \subseteq DOMAIN _CLIENT_CONFIG'
       /\ \A k \in DOMAIN _CLIENT_CONFIG' :
            (k \notin DOMAIN _CLIENT_CONFIG \/ _CLIENT_CONFIG'[k] # _CLIENT_CONFIG[k])
            => /\ KeyedNext
               /\ KeyNext = k
               /\ BothCredentials(ParamsNext)
               /\ _CLIENT_CONFIG'[k] =
                    [baseUrl |-> ParamsNext.d["baseUrl"],
                     privateKey |-> ParamsNext.d["privateKey"],
                     chainId |-> IntParam(ParamsNext, "chainId").val,
                     accountIndex |-> IntParam(ParamsNext, "accountIndex").val]
       /\ (Handles /\ KeyedNext /\ ~BothCredentials(ParamsNext))
            => _CLIENT_CONFIG' = _CLIENT_CONFIG]_vars

\* C7's case: a key that CreateClient once accepted now holds the config
\* of the current request, which differs from every config CreateClient
\* can have accepted.
C7_Witness ==
    /\ pc = "print"
    /\ Keyed
    /\ BothCredentials(CurrentParams)
    /\ CurrentKey \in _INITIALISED_KEYS
    /\ CurrentKey \in DOMAIN _CLIENT_CONFIG
    /\ _CLIENT_CONFIG[CurrentKey].baseUrl = JInt(Small(7))
    /\ _CLIENT_CONFIG[CurrentKey].baseUrl = CurrentParams.d["baseUrl"]

\* C8: create_client sent twice in a row with the same params, CreateClient
\* reporting no error either time: both answers are {"result": "ok"}, and
\* the registry and the initialised keys after the second are those after
\* the first, with an entry for the key.
C8_CreateClientIdempotent ==
    (/\ pc = "print"
     /\ prev # NoPrev
     /\ Current.method = JStr("create_client")
     /\ prev.calls # <<>> /\ ~Failed(prev.calls[1])
     /\ calls # <<>> /\ ~Failed(calls[1]))
    => /\ line = prev.line
       /\ prev.response = Response(Get(Current.id), ResultOutcome(JStr("ok")))
       /\ response = prev.response
       /\ _CLIENT_CONFIG = prev.config
       /\ _INITIALISED_KEYS = prev.keys
       /\ CurrentKey \in DOMAIN _CLIENT_CONFIG
       /\ CurrentKey \in _INITIALISED_KEYS

\* C8's case: the second of two identical create_client requests has been
\* answered, on a key that held another config before the first.
C8_Witness ==
    /\ pc = "print"
    /\ prev # NoPrev
    /\ Current.method = JStr("create_client")
    /\ calls # <<>> /\ ~Failed(calls[1])
    /\ prev.calls # <<>> /\ ~Failed(prev.calls[1])
    /\ response.result = JStr("ok")
    /\ Cardinality(DOMAIN _CLIENT_CONFIG) = 2

\* C9: a response carries the id of the request it answers, null when the
\* request has no id or the line could not be parsed.
C9_IdEchoed ==
    pc = "print" =>
        /\ line.kind = "json" =>
             response.id = (IF Current.id.t = "absent" THEN JNull ELSE Current.id)
        /\ line.kind = "invalid" => response.id = JNull

\* C9's case: a request with a string id answered with a foreign error.
C9_Witness ==
    /\ pc = "print"
    /\ Current.id = JStr("a")
    /\ response.id = JStr("a")
    /\ response.error = JStr("invalid private key")

\* C10: a request whose method is none of the five (an absent method
\* included) is answered {id, error: unknown_method:<method>}, makes no
\* foreign call, leaves the registry and the initialised keys as they were,
\* and the loop goes on to the next line.
C10_UnknownMethod ==
    [][(/\ Handles
        /\ line'.kind = "json"
        /\ line'.request.t = "dict"
        /\ ~HasHandler(line'.request.method))
       => /\ pc' = "print"
          /\ response' = Response(Get(line'.request.id),
                ErrorOutcome("unknown_method:" \o PyStr(Get(line'.request.method))))
          /\ calls' = <<>>
          /\ _CLIENT_CONFIG' = _CLIENT_CONFIG
          /\ _INITIALISED_KEYS' = _INITIALISED_KEYS]_vars

Composite == calls # <<>> /\ calls[Len(calls)].ret.struct = "SignedTxResponse"
Present(v) == v.t # "absent"

\* C12: the response to a dispatched request has the keys id, error,
\* result, txHash, messageToSign and no other (no txType); it holds error
\* or result and never both; with error it holds none of result, txHash,
\* messageToSign; a composite result with a non-empty err gives that text
\* (decoded) as the error, and one without gives all three of result,
\* txHash, messageToSign.
C12_ErrorOrResult ==
    (pc = "print" /\ Dispatching) =>
        /\ DOMAIN response = {"id", "error", "result", "txHash", "messageToSign"}
        /\ Present(response.error) # Present(response.result)
        /\ Present(response.error) =>
              /\ ~Present(response.result)
              /\ ~Present(response.txHash)
              /\ ~Present(response.messageToSign)
        /\ (Composite /\ Truthy(calls[Len(calls)].ret.err)) =>
              response.error = JStr(Decode(calls[Len(calls)].ret.err))
        /\ (Composite /\ ~Truthy(calls[Len(calls)].ret.err)) =>
              /\ ~Present(response.error)
              /\ Present(response.result)
              /\ Present(response.txHash)
              /\ Present(response.messageToSign)

\* C12's case: a signing call answered with an error although the foreign
\* record held no other field, so that the composite dict would hold nulls.
C12_Witness ==
    /\ pc = "print"
    /\ Composite
    /\ response.error = JStr("insufficient_margin")
    /\ ~Present(response.result)
    /\ ~Present(response.txHash)

\* The last foreign call of the current request is the CreateAuthToken call.
TokenCall == calls # <<>> /\ calls[Len(calls)].fn = "CreateAuthToken"

\* C13: create_auth_token answers, for every value (absent, empty,
\* non-empty) and error (absent, empty, non-empty) of the foreign result:
\* {error: <error text>} if the error is present and non-empty, else
\* {result: <value>} if the value is present, else {result: null}; never
\* txHash or messageToSign.
C13_AuthTokenUnwrapped ==
    (pc = "print" /\ TokenCall) =>
        LET ret == calls[Len(calls)].ret
        IN  response =
              Response(Get(Current.id),
                IF Truthy(ret.err) THEN ErrorOutcome(Decode(ret.err))
                ELSE IF ~ret.str.null THEN ResultOutcome(JStr(Decode(ret.str)))
                ELSE ResultOutcome(JNull))

\* The step handles a sign_create_order request.
HandlesSignCreateOrder ==
    Handles /\ DispatchingNext /\ line'.request.method = JStr("sign_create_order")

\* C14 as stated: handling a sign_create_order request leaves the registry
\* and the initialised keys as they were.
C14_AsStated ==
    [][HandlesSignCreateOrder
       => /\ _CLIENT_CONFIG' = _CLIENT_CONFIG
          /\ _INITIALISED_KEYS' = _INITIALISED_KEYS]_vars

\* C14, amended: handling a sign_create_order request for key k changes the
\* registry only when the request carries both baseUrl and privateKey, and
\* then only the config of k; it changes the initialised keys only by
\* adding k, and only when its CreateClient call returned without error.
C14_OnlyEnsureMutates ==
    [][HandlesSignCreateOrder
       => /\ _CLIENT_CONFIG' # _CLIENT_CONFIG =>
                /\ KeyedNext
                /\ BothCredentials(ParamsNext)
                /\ DOMAIN _CLIENT_CONFIG' = DOMAIN _CLIENT_CONFIG \cup {KeyNext}
                /\ \A x \in DOMAIN _CLIENT_CONFIG :
                      x # KeyNext => _CLIENT_CONFIG'[x] = _CLIENT_CONFIG[x]
          /\ _INITIALISED_KEYS' # _INITIALISED_KEYS =>
                /\ KeyedNext
                /\ _INITIALISED_KEYS' = _INITIALISED_KEYS \cup {KeyNext}
                /\ calls' # <<>>
                /\ IsCreateClient(calls'[1])
                /\ ~Failed(calls'[1])]_vars

\* C14's case: a sign_create_order request with credentials has reached the
\* SignCreateOrder call and its key is initialised, beside another key
\* that is.
C14_Witness ==
    /\ pc = "print"
    /\ Keyed
    /\ Current.method = JStr("sign_create_order")
    /\ BothCredentials(CurrentParams)
    /\ Len(calls) = 2
    /\ CurrentKey \in _INITIALISED_KEYS
    /\ Cardinality(_INITIALISED_KEYS) = 2

\* C15: a key is among the initialised keys exactly when a CreateClient
\* call for it has returned without error, and a key once initialised
\* stays so, also when a later CreateClient call for it fails.
C15_InitialisedIffCreated ==
    [][/\ _INITIALISED_KEYS' = created'
       /\ _INITIALISED_KEYS \subseteq _INITIALISED_KEYS']_vars

\* C16: a request for key k leaves the config and the initialised status
\* of every other key as they were, and every foreign call it makes gets k
\* as its apiKeyIndex.
C16_KeysIndependent ==
    [][(Handles /\ KeyedNext)
       => /\ \A j \in (DOMAIN _CLIENT_CONFIG \cup DOMAIN _CLIENT_CONFIG') \ {KeyNext} :
                /\ j \in DOMAIN _CLIENT_CONFIG
                /\ j \in DOMAIN _CLIENT_CONFIG'
                /\ _CLIENT_CONFIG'[j] = _CLIENT_CONFIG[j]
          /\ _INITIALISED_KEYS' \ {KeyNext} = _INITIALISED_KEYS \ {KeyNext}
          /\ \A i \in 1 .. Len(calls') : calls'[i].apiKeyIndex = KeyNext]_vars

\* C17: requests are processed one after the other: a line is taken up
\* only when the response to the line before has been printed and no
\* foreign call is outstanding; the foreign calls of a request have all
\* returned when its response is formed; and the step after that is the
\* printing of this response, before anything else is read or called.
C17_StrictlySequential ==
    [][/\ (line' # line /\ line' # NoLine) =>
            /\ pc = "read"
            /\ response = NoResponse
            /\ calls = <<>>
       /\ (calls' # calls /\ calls' # <<>>) =>
            /\ calls = <<>>
            /\ line' # NoLine
            /\ pc' = "print"
            /\ response' # NoResponse
       /\ pc = "print" =>
            /\ pc' = "read"
            /\ response' = NoResponse
            /\ calls' = <<>>]_vars

\* C17's case: a request that rests on the config of an earlier request
\* has made its two foreign calls and its response waits to be printed.
C17_Witness ==
    /\ pc = "print"
    /\ Keyed
    /\ ~BothCredentials(CurrentParams)
    /\ Len(calls) = 2
    /\ response # NoResponse

\* str(exc) of the exceptions a handler raises on the model's requests, and
\* the responses that report one (lines 278-279).
ExceptionTexts ==
    {"'" \o f \o "'" : f \in Fields}
    \cup {"invalid literal for int() with base 10: 'x'",
          "int() argument must be a string, a bytes-like object or a real number, not 'list'",
          "int() argument must be a string, a bytes-like object or a real number, not 'NoneType'",
          "list indices must be integers or slices, not str",
          "string indices must be integers, not 'str'",
          "'int' object is not subscriptable",
          "'NoneType' object is not subscriptable",
          "'int' object has no attribute 'encode'",
          "'list' object has no attribute 'encode'",
          "'NoneType' object has no attribute 'encode'"}
IsException(r) == r.error \in {JStr("exception:" \o m) : m \in ExceptionTexts}

\* C18: a request answered with an exception:<description> error leaves
\* the config of every key and the initialised keys as they were.
C18_ExceptionLeavesRegistry ==
    [][(Handles /\ pc' = "print" /\ IsException(response'))
       => /\ _CLIENT_CONFIG' = _CLIENT_CONFIG
          /\ _INITIALISED_KEYS' = _INITIALISED_KEYS]_vars

\* C19: every SignCreateOrder, SignCancelOrder, SignCancelAllOrders or
\* CreateAuthToken call gets the apiKeyIndex and the accountIndex that the
\* CreateClient call made before it in the same request got.
C19_SameClientContext ==
    \A j \in 1 .. Len(calls) :
        ~IsCreateClient(calls[j]) =>
            \E i \in 1 .. j - 1 :
                /\ IsCreateClient(calls[i])
                /\ calls[i].apiKeyIndex = calls[j].apiKeyIndex
                /\ calls[i].accountIndex = calls[j].accountIndex

\* C20: the initialised keys are always among the keys of the registry,
\* and no step removes a key from the registry.
C20_RegistryOnlyGrows ==
    [][/\ _INITIALISED_KEYS' \subseteq DOMAIN _CLIENT_CONFIG'
       /\ DOMAIN _CLIENT_CONFIG \subseteq DOMAIN _CLIENT_CONFIG']_vars

\* C20's case: a request has stored the config of a second key, which
\* CreateClient refused, beside a key that is initialised.
C20_Witness ==
    /\ pc = "print"
    /\ Keyed
    /\ calls # <<>>
    /\ Failed(calls[1])
    /\ CurrentKey \in DOMAIN _CLIENT_CONFIG
    /\ CurrentKey \notin _INITIALISED_KEYS
    /\ _INITIALISED_KEYS # {}

====
